---- MODULE Spec2Model ----
(***************************************************************************)
(* A model of ExperimentClient (TabularExperimentTrackerClient):           *)
(* the experiment definition (model groups, data groups, applications,     *)
(* registration), the run calls to the orchestrator, the one-slot dataset  *)
(* cache of opml_load_task and the partition of catalog task identifiers   *)
(* done by opml_identifiers.                                               *)
(*                                                                         *)
(* Python values are tagged records: None, Str(s), PyInt(n), List(seq)    *)
(* and Dict(items), a dict being the sequence of its <<key, value>> items  *)
(* in insertion order.  Text that the code slices, splits or parses is a   *)
(* sequence of one-character strings.                                      *)
(*                                                                         *)
(* Three specifications cover the client: SpecBuilder (the experiment      *)
(* definition calls), SpecRun (the run calls and opml_load_task) and       *)
(* SpecCatalog (def_data_groups_opml over what the catalog may return).    *)
(***************************************************************************)
EXTENDS Integers, Sequences, FiniteSets, TLC

VARIABLES
    expname,                     \* self.expname
    model_groups,                \* self.model_groups
    data_groups,                 \* self.data_groups
    applications,                \* self.applications
    run_id,                      \* self.run_id
    prev_task,                   \* self.prev_task
    prev_X,                      \* self.prev_X
    prev_Y,                      \* self.prev_Y
    prev_categorical_indicator,  \* self.prev_categorical_indicator
    prev_attribute_names,        \* self.prev_attribute_names
    suites_ids,                  \* self.suites_ids
    suites,                      \* self.suites
    taskID_suite,                \* self.taskID_suite
    out,                         \* what the last call did: its outcome and the request it sent
    session,                     \* history: the run lifecycle the calls went through
    last_loaded                  \* history: task string of the last opml_load_task call that returned

vars == <<expname, model_groups, data_groups, applications, run_id, prev_task,
          prev_X, prev_Y, prev_categorical_indicator, prev_attribute_names,
          suites_ids, suites, taskID_suite, out, session, last_loaded>>

builderVars == <<expname, model_groups, data_groups, applications>>
cacheVars == <<prev_task, prev_X, prev_Y, prev_categorical_indicator, prev_attribute_names>>
catalogVars == <<suites_ids, suites, taskID_suite>>

-----------------------------------------------------------------------------
(* Python values *)

None == [none |-> TRUE]
Str(s) == [str |-> s]
PyInt(n) == [int |-> n]
List(s) == [list |-> s]
Dict(items) == [dict |-> items]

IsStr(v) == "str" \in DOMAIN v
IsList(v) == "list" \in DOMAIN v
IsDict(v) == "dict" \in DOMAIN v

\* dict.keys() of a sequence of <<key, value>> items
Keys(items) == {items[i][1] : i \in DOMAIN items}

\* items[key], for a key of the dict
Lookup(items, key) == items[CHOOSE i \in DOMAIN items : items[i][1] = key][2]

\* the sequences over S of length at most n
SeqsUpTo(S, n) == UNION {[1..k -> S] : k \in 0..n}

\* the dicts (item sequences with distinct keys) over keys K and values V, at most n items
DictsUpTo(K, V, n) ==
    LET most == IF n < Cardinality(K) THEN n ELSE Cardinality(K)
        items == {d \in SeqsUpTo(K \X V, most) :
                     \A i, j \in DOMAIN d : d[i][1] = d[j][1] => i = j}
    IN  {d : d \in items}

-----------------------------------------------------------------------------
(* Text *)

DigitChars == <<"0", "1", "2", "3", "4", "5", "6", "7", "8", "9">>

IsDigit(c) == \E d \in DOMAIN DigitChars : DigitChars[d] = c

DigitValue(c) == (CHOOSE d \in DOMAIN DigitChars : DigitChars[d] = c) - 1

\* str(n) of a natural number, as '{}'.format(n) writes it
RECURSIVE DecimalText(_)
DecimalText(n) ==
    IF n < 10 THEN <<DigitChars[n + 1]>>
    ELSE DecimalText(n \div 10) \o <<DigitChars[(n % 10) + 1]>>

\* text[:n]
Prefix(text, n) == SubSeq(text, 1, IF Len(text) < n THEN Len(text) ELSE n)

\* text[1:-1]
TrimEnds(text) == SubSeq(text, 2, Len(text) - 1)

\* int(text) succeeds: an optional sign and then digits only
IsIntText(text) ==
    LET body == IF Len(text) > 0 /\ text[1] = "-" THEN Tail(text) ELSE text
    IN  Len(body) > 0 /\ \A i \in DOMAIN body : IsDigit(body[i])

RECURSIVE DigitsValue(_)
DigitsValue(body) ==
    IF Len(body) = 0 THEN 0
    ELSE 10 * DigitsValue(SubSeq(body, 1, Len(body) - 1)) + DigitValue(body[Len(body)])

\* int(text), for a text int() accepts
ParseInt(text) ==
    IF text[1] = "-" THEN 0 - DigitsValue(Tail(text)) ELSE DigitsValue(text)

\* text.split('-')
RECURSIVE SplitDash(_)
SplitDash(text) ==
    IF \A i \in DOMAIN text : text[i] # "-" THEN <<text>>
    ELSE LET at == CHOOSE i \in DOMAIN text :
                       text[i] = "-" /\ \A j \in 1..(i - 1) : text[j] # "-"
         IN  <<SubSeq(text, 1, at - 1)>> \o SplitDash(SubSeq(text, at + 1, Len(text)))

-----------------------------------------------------------------------------
(* What a call did *)

\* the call op(arg) returned value, having sent request (None: none sent)
Returned(op, arg, value, request) ==
    [op |-> op, arg |-> arg, status |-> "ok", error |-> "", ret |-> value,
     request |-> request, fetched |-> None]

\* the call op(arg) raised error, having sent request (None: none sent)
Raised(op, arg, error, request) ==
    [op |-> op, arg |-> arg, status |-> "error", error |-> error, ret |-> None,
     request |-> request, fetched |-> None]

\* the same outcome, of a call that asked the catalog for the dataset of task_id
WithFetch(outcome, task_id) == [outcome EXCEPT !.fetched = PyInt(task_id)]

Request(endpoint, payload) == [endpoint |-> endpoint, payload |-> payload]

\* what a collaborator answers: nothing (the call raises), or a response text
NoReply == [noreply |-> TRUE]
Text(t) == [text |-> t]
TransportError == "requests: no response"

-----------------------------------------------------------------------------
(* Construction *)

SuiteIdsFor(opml_regression, opml_classification, opml_purnum, opml_numcat) ==
    (IF opml_regression /\ opml_purnum THEN <<336>> ELSE <<>>)
    \o (IF opml_regression /\ opml_numcat THEN <<335>> ELSE <<>>)
    \o (IF opml_classification /\ opml_purnum THEN <<337>> ELSE <<>>)
    \o (IF opml_classification /\ opml_numcat THEN <<334>> ELSE <<>>)

runs_per_pair == 60

Init ==
    /\ expname = None
    /\ model_groups = None
    /\ data_groups = None
    /\ applications = None
    /\ run_id = None
    /\ prev_task = <<>>
    /\ prev_X = None
    /\ prev_Y = None
    /\ prev_categorical_indicator = None
    /\ prev_attribute_names = None
    /\ suites_ids = SuiteIdsFor(TRUE, TRUE, TRUE, TRUE)
    /\ suites = <<>>
    /\ taskID_suite = <<>>
    /\ out = Returned("__init__", None, None, None)
    /\ session = "not started"
    /\ last_loaded = <<>>

-----------------------------------------------------------------------------
(* Internal setup: the catalog's suites and the task identifiers *)

\* [(task_id, suite) for suite in self.suites for task_id in suite.tasks]
RECURSIVE TaskPairs(_)
TaskPairs(ss) ==
    IF Len(ss) = 0 THEN <<>>
    ELSE [i \in DOMAIN ss[1].tasks |-> <<ss[1].tasks[i], ss[1]>>] \o TaskPairs(Tail(ss))

\* init_opml(), the catalog answering get_suite with the suites of reply
init_opml(reply) ==
    /\ suites = reply
    /\ taskID_suite = TaskPairs(suites)

\* '{}-{}'.format(suite.study_id, task)
TaskIdentifier(study_id, task) == DecimalText(study_id) \o <<"-">> \o DecimalText(task)

\* Bucket, as a comparison of the whole suite id of the identifier would have it
RECURSIVE Bucket_WholeSuiteId(_, _)
Bucket_WholeSuiteId(task_ids, suite_id) ==
    IF Len(task_ids) = 0 THEN <<>>
    ELSE (IF ParseInt(SplitDash(task_ids[1])[1]) = suite_id THEN <<task_ids[1]>> ELSE <<>>)
         \o Bucket_WholeSuiteId(Tail(task_ids), suite_id)

\* [t for t in task_ids if int(t[:3]) == suite_id]
RECURSIVE Bucket(_, _)
Bucket(task_ids, suite_id) ==
    IF Len(task_ids) = 0 THEN <<>>
    ELSE (IF ParseInt(Prefix(task_ids[1], 3)) = suite_id THEN <<task_ids[1]>> ELSE <<>>)
         \o Bucket(Tail(task_ids), suite_id)

\* opml_identifiers(): the data groups, or the ValueError of int() on a prefix that is no number
opml_identifiers ==
    LET task_ids == [i \in DOMAIN taskID_suite |->
                        TaskIdentifier(taskID_suite[i][2].study_id, taskID_suite[i][1])]
    IN  IF \E i \in DOMAIN task_ids : ~IsIntText(Prefix(task_ids[i], 3))
        THEN [ok |-> FALSE, error |-> "ValueError: invalid literal for int()"]
        ELSE [ok |-> TRUE,
              value |-> Dict(<< <<"opml_reg_purnum_group", Bucket(task_ids, 336)>>,
                                <<"opml_class_purnum_group", Bucket(task_ids, 337)>>,
                                <<"opml_reg_numcat_group", Bucket(task_ids, 335)>>,
                                <<"opml_class_numcat_group", Bucket(task_ids, 334)>> >>)]

-----------------------------------------------------------------------------
(* Experiment definition *)

\* the first check of def_model_groups that model group k fails ("" when it passes all)
ModelGroupError(k, v) ==
    IF ~IsDict(v) THEN "does not have a coresponding dictionary"
    ELSE IF Keys(v.dict) # {"model", "hype"}
         THEN "does not have the correct attributes of 'model' and 'hype', exclusively"
    ELSE IF ~IsStr(Lookup(v.dict, "model")) THEN "has a non-string model (aka model id) attribute"
    ELSE IF ~IsDict(Lookup(v.dict, "hype"))
         THEN "has a non-dictionary hype (aka hyperparameter space) attribute"
    ELSE ""

\* the error def_model_groups raises: that of the first group, in iteration order, failing a check
ModelGroupsError(groups) ==
    IF \A i \in DOMAIN groups : ModelGroupError(groups[i][1], groups[i][2]) = "" THEN ""
    ELSE LET at == CHOOSE i \in DOMAIN groups :
                       /\ ModelGroupError(groups[i][1], groups[i][2]) # ""
                       /\ \A j \in 1..(i - 1) : ModelGroupError(groups[j][1], groups[j][2]) = ""
         IN  ModelGroupError(groups[at][1], groups[at][2])

def_model_groups(groups) ==
    LET error == ModelGroupsError(groups)
    IN  /\ IF error = ""
           THEN /\ model_groups' = Dict(groups)
                /\ out' = Returned("def_model_groups", None, None, None)
           ELSE /\ model_groups' = model_groups
                /\ out' = Raised("def_model_groups", None, error, None)
        /\ UNCHANGED <<expname, data_groups, applications, run_id, cacheVars, catalogVars,
                       session, last_loaded>>

def_data_groups_opml ==
    LET groups == opml_identifiers
    IN  /\ IF groups.ok
           THEN /\ data_groups' = groups.value
                /\ out' = Returned("def_data_groups_opml", None, None, None)
           ELSE /\ data_groups' = data_groups
                /\ out' = Raised("def_data_groups_opml", None, groups.error, None)
        /\ UNCHANGED <<expname, model_groups, applications, run_id, cacheVars, catalogVars,
                       session, last_loaded>>

def_data_groups ==
    /\ out' = Raised("def_data_groups", None, "function not yet defined", None)
    /\ UNCHANGED <<builderVars, run_id, cacheVars, catalogVars, session, last_loaded>>

AttributeError == "AttributeError: 'NoneType' object has no attribute 'keys'"

\* ModelIdError, without the lookup of the model id in the model groups
ModelIdError_NoLookup(mid) ==
    IF ~IsStr(mid) THEN "model id should be of type 'str'" ELSE ""

\* the first check of def_applications that model id mid fails ("" when it passes)
ModelIdError(mid) ==
    IF ~IsStr(mid) THEN "model id should be of type 'str'"
    ELSE IF model_groups = None THEN AttributeError
    ELSE IF mid.str \notin Keys(model_groups.dict)
         THEN "model id could not be found in defined model groups"
    ELSE ""

\* the first check of def_applications that the entry k: v fails ("" when it passes all)
ApplicationError(k, v) ==
    IF data_groups = None THEN AttributeError
    ELSE IF k \notin Keys(data_groups.dict) THEN "data group in application not in the data groups specified"
    ELSE IF ~IsList(v) THEN "should be a list of model ids"
    ELSE IF \A i \in DOMAIN v.list : ModelIdError(v.list[i]) = "" THEN ""
    ELSE ModelIdError(v.list[CHOOSE i \in DOMAIN v.list :
                                 /\ ModelIdError(v.list[i]) # ""
                                 /\ \A j \in 1..(i - 1) : ModelIdError(v.list[j]) = ""])

\* the error def_applications raises: that of the first entry, in iteration order, failing a check
ApplicationsError(apps) ==
    IF \A i \in DOMAIN apps : ApplicationError(apps[i][1], apps[i][2]) = "" THEN ""
    ELSE LET at == CHOOSE i \in DOMAIN apps :
                       /\ ApplicationError(apps[i][1], apps[i][2]) # ""
                       /\ \A j \in 1..(i - 1) : ApplicationError(apps[j][1], apps[j][2]) = ""
         IN  ApplicationError(apps[at][1], apps[at][2])

def_applications(apps) ==
    LET error == ApplicationsError(apps)
    IN  /\ IF error = ""
           THEN /\ applications' = Dict(apps)
                /\ out' = Returned("def_applications", None, None, None)
           ELSE /\ applications' = applications
                /\ out' = Raised("def_applications", None, error, None)
        /\ UNCHANGED <<expname, model_groups, data_groups, run_id, cacheVars, catalogVars,
                       session, last_loaded>>

\* RegExperimentError, without the check of the applications
RegExperimentError_NoApplications(name) ==
    IF ~IsStr(name) THEN "expname should be a string"
    ELSE IF model_groups = None THEN "model_groups not defined, use 'def_model_groups'"
    ELSE IF data_groups = None THEN "data_groups not defined, use 'def_data_groups_opml'"
    ELSE ""

\* the first check of reg_experiment that fails ("" when the definition is complete)
RegExperimentError(name) ==
    IF ~IsStr(name) THEN "expname should be a string"
    ELSE IF model_groups = None THEN "model_groups not defined, use 'def_model_groups'"
    ELSE IF data_groups = None THEN "data_groups not defined, use 'def_data_groups_opml'"
    ELSE IF applications = None THEN "applications not defined, use 'def_applications'"
    ELSE ""

\* the experiment_definition document of reg_experiment
ExperimentDefinition(name) ==
    [name |-> name, runs_per_pair |-> runs_per_pair,
     definition |-> [data_groups |-> data_groups, model_groups |-> model_groups,
                     applications |-> applications]]

reg_experiment(name, reply) ==
    LET error == RegExperimentError(name)
        request == Request("registerExperiment", ExperimentDefinition(name))
    IN  /\ expname' = name
        /\ out' = IF error # "" THEN Raised("reg_experiment", name, error, None)
                  ELSE IF reply = NoReply THEN Raised("reg_experiment", name, TransportError, request)
                  ELSE Returned("reg_experiment", name, Str(reply.text), request)
        /\ UNCHANGED <<model_groups, data_groups, applications, run_id, cacheVars,
                       catalogVars, session, last_loaded>>

-----------------------------------------------------------------------------
(* Running an experiment *)

\* the response text the orchestrator gives when no run is left
ConcludedText ==
    <<"e", "x", "p", "e", "r", "i", "m", "e", "n", "t", " ",
      "c", "o", "n", "c", "l", "u", "d", "e", "d">>

\* the state after the response text of beginRun or beginRunSticky is handled
HandleBegin(op, request, reply) ==
    IF reply = NoReply
    THEN /\ run_id' = run_id
         /\ session' = session
         /\ out' = Raised(op, None, TransportError, request)
    ELSE IF reply.text = ConcludedText
    THEN /\ run_id' = Str(reply.text)
         /\ session' = session
         /\ out' = Raised(op, None, "no run_id, experiment concluded!", request)
    ELSE /\ run_id' = Str(TrimEnds(reply.text))
         /\ session' = "active"
         /\ out' = Returned(op, None, Str(TrimEnds(reply.text)), request)

begin_run(reply) ==
    /\ HandleBegin("begin_run", Request("beginRun", [experiment |-> expname]), reply)
    /\ UNCHANGED <<builderVars, cacheVars, catalogVars, last_loaded>>

\* the payload of beginRunSticky
StickyPayload == [experiment |-> expname, task |-> prev_task]

begin_run_sticky(reply) ==
    /\ HandleBegin("begin_run_sticky", Request("beginRunSticky", StickyPayload), reply)
    /\ UNCHANGED <<builderVars, cacheVars, catalogVars, last_loaded>>

\* json.loads of the response texts of getRun
JsonDocument == "{\"_id\": \"r1\", \"metrics\": []}"
IsJson(text) == text = JsonDocument
JsonLoads(text) == Dict(<< <<"_id", Str("r1")>>, <<"metrics", List(<<>>)>> >>)

\* the outcome of get_run and of end_run, which send the same request
FetchRun(op, reply) ==
    LET request == Request("getRun", [run |-> run_id])
    IN  IF reply = NoReply THEN Raised(op, None, TransportError, request)
        ELSE IF ~IsJson(reply.text) THEN Raised(op, None, "json.JSONDecodeError", request)
        ELSE Returned(op, None, JsonLoads(reply.text), request)

get_run(reply) ==
    /\ out' = FetchRun("get_run", reply)
    /\ UNCHANGED <<builderVars, run_id, cacheVars, catalogVars, session, last_loaded>>

update_run(metrics, reply) ==
    LET request == Request("updateRun", [run |-> run_id, metrics |-> metrics])
    IN  /\ out' = IF reply = NoReply THEN Raised("update_run", metrics, TransportError, request)
                  ELSE Returned("update_run", metrics, Str(reply.text), request)
        /\ UNCHANGED <<builderVars, run_id, cacheVars, catalogVars, session, last_loaded>>

end_run(reply) ==
    /\ out' = FetchRun("end_run", reply)
    /\ session' = IF out'.status = "ok" THEN "concluded" ELSE session
    /\ UNCHANGED <<builderVars, run_id, cacheVars, catalogVars, last_loaded>>

-----------------------------------------------------------------------------
(* Loading data *)

\* what dataset.get_data returns for a task: X, y, categorical_indicator, attribute_names
Dataset(task_id, version) ==
    <<[part |-> "X", task |-> task_id, version |-> version],
      [part |-> "y", task |-> task_id, version |-> version],
      [part |-> "categorical_indicator", task |-> task_id, version |-> version],
      [part |-> "attribute_names", task |-> task_id, version |-> version]>>

\* the ValueError of the unpacking and the int() calls of opml_load_task ("" when they pass)
TaskStrError(task_str) ==
    LET parts == SplitDash(task_str)
    IN  IF Len(parts) # 2 THEN "ValueError: unpack"
        ELSE IF ~IsIntText(parts[1]) \/ ~IsIntText(parts[2])
             THEN "ValueError: invalid literal for int()"
        ELSE ""

\* task_id of a task string that passes
TaskIdOf(task_str) == ParseInt(SplitDash(task_str)[2])

\* IsNewTask, as a comparison of the task ids instead of the task strings would have it
IsNewTask_ByTaskId(task_str) ==
    \/ TaskStrError(prev_task) # ""
    \/ TaskIdOf(task_str) # TaskIdOf(prev_task)

\* the test that decides on a download
IsNewTask(task_str) == task_str # prev_task

\* SaveDownload, without the assignment to prev_task
SaveDownload_KeepsTask(task_str, data) ==
    /\ prev_task' = prev_task
    /\ prev_X' = data[1]
    /\ prev_Y' = data[2]
    /\ prev_categorical_indicator' = data[3]
    /\ prev_attribute_names' = data[4]

\* the state after the assignments that save a download for sticky loading
SaveDownload(task_str, data) ==
    /\ prev_task' = task_str
    /\ prev_X' = data[1]
    /\ prev_Y' = data[2]
    /\ prev_categorical_indicator' = data[3]
    /\ prev_attribute_names' = data[4]

opml_load_task(task_str, reply) ==
    LET error == TaskStrError(task_str)
        cached == <<prev_X, prev_Y, prev_categorical_indicator, prev_attribute_names>>
    IN  /\ IF error # ""
           THEN /\ out' = Raised("opml_load_task", task_str, error, None)
                /\ UNCHANGED <<cacheVars, last_loaded>>
           ELSE IF IsNewTask(task_str)
           THEN IF reply = NoReply
                THEN /\ out' = WithFetch(Raised("opml_load_task", task_str, "openml: no response", None),
                                          TaskIdOf(task_str))
                     /\ UNCHANGED <<cacheVars, last_loaded>>
                ELSE /\ SaveDownload(task_str, Dataset(TaskIdOf(task_str), reply.version))
                     /\ out' = WithFetch(Returned("opml_load_task", task_str,
                                                   Dataset(TaskIdOf(task_str), reply.version), None),
                                          TaskIdOf(task_str))
                     /\ last_loaded' = task_str
           ELSE /\ out' = Returned("opml_load_task", task_str, cached, None)
                /\ last_loaded' = task_str
                /\ UNCHANGED cacheVars
        /\ UNCHANGED <<builderVars, run_id, catalogVars, session>>

-----------------------------------------------------------------------------
(* The calls a user makes and the answers the collaborators give *)

MaxModelIds == 1
MaxApplications == 2
MaxTasks == 2
MaxTask == 2
MaxVersion == 2

ModelGroupIds == {"mlp", "xgboost"}

\* a well-formed model group, and one failing each check of def_model_groups in turn
ModelGroupValues ==
    {Dict(<< <<"model", Str("mlp")>>, <<"hype", Dict(<<>>)>> >>),
     Str("mlp"),
     Dict(<< <<"model", Str("mlp")>> >>),
     Dict(<< <<"model", Str("mlp")>>, <<"hype", Dict(<<>>)>>, <<"seed", PyInt(7)>> >>),
     Dict(<< <<"model", PyInt(7)>>, <<"hype", Dict(<<>>)>> >>),
     Dict(<< <<"model", Str("mlp")>>, <<"hype", List(<<>>)>> >>)}

ModelGroupInputs == DictsUpTo(ModelGroupIds, ModelGroupValues, Cardinality(ModelGroupIds))

\* a data group opml_identifiers produces, and one it does not
ApplicationKeys == {"opml_reg_purnum_group", "my_group"}

\* model ids: a string a model group may be named by, and a non-string
ModelIdValues == {Str("mlp"), PyInt(7)}

\* lists of model ids, and a bare string
ApplicationValues == {List(l) : l \in SeqsUpTo(ModelIdValues, MaxModelIds)} \cup {Str("mlp")}

ApplicationInputs == DictsUpTo(ApplicationKeys, ApplicationValues, MaxApplications)

ExperimentNames == {Str("exp"), PyInt(7)}

RegisterReplies == {NoReply, Text("registered")}

BeginReplies ==
    {NoReply, Text(ConcludedText), Text(<<"\"", "r", "1", "\"">>), Text(<<"\"", "r", "2", "\"">>)}

RunReplies == {NoReply, Text(JsonDocument), Text("<html>Bad Gateway</html>")}

MetricsValues == {Dict(<< <<"loss", PyInt(1)>> >>)}

UpdateReplies == {NoReply, Text("updated")}

\* task strings "<suite>-<task>", and strings opml_load_task cannot take apart
WellFormedTaskStrs ==
    {TaskIdentifier(suite_id, task) : suite_id \in {336, 337}, task \in 1..MaxTask}

MalformedTaskStrs ==
    {<<>>, <<"3", "3", "6">>, <<"3", "3", "6", "-", "1", "-", "2">>, <<"3", "3", "6", "-", "x">>}

TaskStrs == WellFormedTaskStrs \cup MalformedTaskStrs

CatalogReplies == {NoReply} \cup {[version |-> v] : v \in 1..MaxVersion}

NextBuilder ==
    \/ \E groups \in ModelGroupInputs : def_model_groups(groups)
    \/ def_data_groups_opml
    \/ def_data_groups
    \/ \E apps \in ApplicationInputs : def_applications(apps)
    \/ \E name \in ExperimentNames, reply \in RegisterReplies : reg_experiment(name, reply)

NextRun ==
    \/ \E reply \in BeginReplies : begin_run(reply)
    \/ \E reply \in BeginReplies : begin_run_sticky(reply)
    \/ \E reply \in RunReplies : get_run(reply)
    \/ \E metrics \in MetricsValues, reply \in UpdateReplies : update_run(metrics, reply)
    \/ \E reply \in RunReplies : end_run(reply)
    \/ \E task_str \in TaskStrs, reply \in CatalogReplies : opml_load_task(task_str, reply)

SpecBuilder == Init /\ [][NextBuilder]_vars

SpecRun == Init /\ [][NextRun]_vars

\* the study ids the catalog may give the suite asked for by suite_id
OtherStudyIds == {99, 123, 3361}
CatalogStudyIds(suite_id) == {suite_id} \cup OtherStudyIds

\* the task ids the catalog may list in a suite
CatalogTaskIds == {1, 23}

\* the ways the catalog spreads at most MaxTasks tasks over n suites: <<suite index, task>> in order
Placements(n) ==
    {p \in SeqsUpTo((1..n) \X CatalogTaskIds, MaxTasks) :
        \A i, j \in DOMAIN p : i < j => p[i][1] <= p[j][1]}

TasksAt(placement, index) ==
    LET AtIndex(p) == p[1] = index
        chosen == SelectSeq(placement, AtIndex)
    IN  [i \in DOMAIN chosen |-> chosen[i][2]]

\* what get_suite may answer for each of ids
CatalogSuites(ids) ==
    LET AllStudyIds == UNION {CatalogStudyIds(ids[i]) : i \in DOMAIN ids}
        studies == {f \in [DOMAIN ids -> AllStudyIds] :
                        \A i \in DOMAIN ids : f[i] \in CatalogStudyIds(ids[i])}
    IN  {[i \in DOMAIN ids |-> [study_id |-> study[i], tasks |-> TasksAt(placement, i)]] :
            study \in studies, placement \in Placements(Len(ids))}

\* a client constructed with any flags, whose define_opml_cred has queried the catalog
InitCatalog ==
    /\ expname = None
    /\ model_groups = None
    /\ data_groups = None
    /\ applications = None
    /\ run_id = None
    /\ prev_task = <<>>
    /\ prev_X = None
    /\ prev_Y = None
    /\ prev_categorical_indicator = None
    /\ prev_attribute_names = None
    /\ \E reg, class, purnum, numcat \in BOOLEAN :
           suites_ids = SuiteIdsFor(reg, class, purnum, numcat)
    /\ \E reply \in CatalogSuites(suites_ids) : init_opml(reply)
    /\ out = Returned("define_opml_cred", None, None, None)
    /\ session = "not started"
    /\ last_loaded = <<>>

NextCatalog == def_data_groups_opml

SpecCatalog == InitCatalog /\ [][NextCatalog]_vars

-----------------------------------------------------------------------------
(* Properties of the run calls, checked under SpecRun *)

\* C1: an update_run or end_run issued while run_id is unset, or while the session is
\* not active (no begin has succeeded yet, or end_run has returned since), fails and
\* sends no request to the orchestrator.
C1_UpdateEndOnlyWhileActive ==
    [][(/\ out'.op \in {"update_run", "end_run"}
        /\ (run_id = None \/ session # "active"))
       => (out'.status = "error" /\ out'.request = None)]_vars

\* C2: a begin_run or begin_run_sticky answered "experiment concluded" raises and
\* leaves run_id and the session as they were before the call.
C2_ConcludedLeavesSession ==
    [][(/\ out'.op \in {"begin_run", "begin_run_sticky"}
        /\ out'.error = "no run_id, experiment concluded!")
       => (run_id' = run_id /\ session' = session)]_vars

\* C3: a call of opml_load_task with a task string "<suite>-<task>" asks the catalog
\* exactly when the string differs from the cached one; a call that returns leaves the
\* cache holding that string with the tuple it returned, which is the dataset of that
\* task, and a call with the cached string returns the cached tuple and keeps the cache.
C3_OneSlotCache ==
    [][(out'.op = "opml_load_task" /\ out'.arg \in WellFormedTaskStrs)
       => /\ (out'.fetched # None) <=> (out'.arg # prev_task)
          /\ out'.status = "ok" =>
                /\ prev_task' = out'.arg
                /\ <<prev_X', prev_Y', prev_categorical_indicator', prev_attribute_names'>>
                       = out'.ret
                /\ \A suite_id \in {336, 337}, task \in 1..MaxTask, i \in 1..4 :
                       out'.arg = TaskIdentifier(suite_id, task) => out'.ret[i].task = task
          /\ out'.arg = prev_task =>
                /\ out'.status = "ok"
                /\ out'.ret = <<prev_X, prev_Y, prev_categorical_indicator,
                                prev_attribute_names>>
                /\ UNCHANGED cacheVars
          /\ out'.status = "error" => UNCHANGED cacheVars]_vars

\* C3 witness: a call with the cached task string returned the cached tuple without a fetch
C3_Witness ==
    /\ out.op = "opml_load_task"
    /\ out.status = "ok"
    /\ out.fetched = None
    /\ out.arg = prev_task
    /\ out.ret = <<prev_X, prev_Y, prev_categorical_indicator, prev_attribute_names>>

\* C9: the task begin_run_sticky sends is the task string of the last opml_load_task
\* call that returned, and the empty string when none has.
C9_StickyHint ==
    out.op = "begin_run_sticky" =>
        /\ out.request # None
        /\ out.request.endpoint = "beginRunSticky"
        /\ out.request.payload.task = last_loaded

\* C9 witness: a sticky begin sent the task string of a load that had returned
C9_Witness ==
    /\ out.op = "begin_run_sticky"
    /\ last_loaded \in WellFormedTaskStrs
    /\ out.request.payload.task = last_loaded

-----------------------------------------------------------------------------
(* Properties of the experiment definition, checked under SpecBuilder *)

StoredKeys(groups) == IF groups = None THEN {} ELSE Keys(groups.dict)

\* the entry k: v names a data group outside dataKeys or a model group outside
\* modelKeys, or is ill-formed
BadEntryFor(k, v, dataKeys, modelKeys) ==
    \/ k \notin dataKeys
    \/ ~IsList(v)
    \/ \E i \in DOMAIN v.list :
           \/ ~IsStr(v.list[i])
           \/ v.list[i].str \notin modelKeys

\* the same, for the data groups and the model groups that are stored
BadEntry(k, v) == BadEntryFor(k, v, StoredKeys(data_groups), StoredKeys(model_groups))

\* C4: whenever applications are stored, each of their keys is a stored data group and
\* each model id they list is a stored model group.
C4_ApplicationsReferToStoredGroups ==
    applications # None =>
        \A i \in DOMAIN applications.dict :
            ~BadEntry(applications.dict[i][1], applications.dict[i][2])

\* C5: a def_applications call made while model groups or data groups are unset fails
\* and stores nothing, whatever the applications.
C5_ApplicationsNeedGroups ==
    [][(/\ out'.op = "def_applications"
        /\ (model_groups = None \/ data_groups = None))
       => (out'.status = "error" /\ applications' = applications)]_vars

ValidationErrors ==
    {"data group in application not in the data groups specified",
     "should be a list of model ids",
     "model id should be of type 'str'",
     "model id could not be found in defined model groups"}

\* C7: with model groups and data groups set, def_applications raises a validation
\* error and keeps the stored applications for every mapping with a bad entry, and
\* stores every mapping without one.
C7_ApplicationsValidated ==
    [][(out'.op = "def_applications" /\ model_groups # None /\ data_groups # None)
       => LET dataKeys == StoredKeys(data_groups)
              modelKeys == StoredKeys(model_groups)
              rejected == /\ out'.status = "error"
                          /\ out'.error \in ValidationErrors
                          /\ applications' = applications
          IN  \A apps \in ApplicationInputs :
                 \/ IF \E i \in DOMAIN apps :
                          BadEntryFor(apps[i][1], apps[i][2], dataKeys, modelKeys)
                    THEN rejected
                    ELSE out'.status = "ok" /\ applications' = Dict(apps)
                 \/ ~def_applications(apps)]_vars

\* C7 witness: a def_applications call failed validation and the applications stored
\* before are still stored
C7_Witness ==
    /\ out.op = "def_applications"
    /\ out.error \in ValidationErrors
    /\ model_groups # None
    /\ data_groups # None
    /\ applications # None
    /\ Len(applications.dict) > 0

\* the piece of the definition an error message of reg_experiment names
NamesMissing(error) ==
    \/ error = "expname should be a string" /\ ~IsStr(out.arg)
    \/ error = "model_groups not defined, use 'def_model_groups'" /\ model_groups = None
    \/ error = "data_groups not defined, use 'def_data_groups_opml'" /\ data_groups = None
    \/ error = "applications not defined, use 'def_applications'" /\ applications = None

\* C6: reg_experiment sends the experiment definition only when the name is a string
\* and model groups, data groups and applications are set; otherwise it fails with a
\* message naming a piece that is missing and sends nothing.
C6_RegisterOnlyComplete ==
    out.op = "reg_experiment" =>
        LET complete == /\ IsStr(out.arg)
                        /\ model_groups # None
                        /\ data_groups # None
                        /\ applications # None
        IN  /\ out.request # None => complete
            /\ complete =>
                  /\ out.request # None
                  /\ out.request.endpoint = "registerExperiment"
                  /\ out.request.payload.name = out.arg
                  /\ out.request.payload.definition =
                         [data_groups |-> data_groups, model_groups |-> model_groups,
                          applications |-> applications]
            /\ ~complete =>
                  /\ out.status = "error"
                  /\ out.request = None
                  /\ NamesMissing(out.error)

\* C6 witness: reg_experiment failed naming the applications, the one piece still unset
C6_Witness ==
    /\ out.op = "reg_experiment"
    /\ out.error = "applications not defined, use 'def_applications'"
    /\ model_groups # None
    /\ data_groups # None
    /\ applications = None

\* C10: a reg_experiment call that fails its checks leaves the stored experiment name
\* as it was.
C10_FailedRegisterKeepsName ==
    [][(/\ out'.op = "reg_experiment"
        /\ out'.status = "error"
        /\ out'.request = None)
       => expname' = expname]_vars

-----------------------------------------------------------------------------
(* Properties of the catalog partition, checked under SpecCatalog *)

SuiteOfGroup ==
    << <<"opml_reg_purnum_group", 336>>, <<"opml_class_purnum_group", 337>>,
       <<"opml_reg_numcat_group", 335>>, <<"opml_class_numcat_group", 334>> >>

\* the task identifiers of the catalog's tasks
Identifiers ==
    {TaskIdentifier(taskID_suite[i][2].study_id, taskID_suite[i][1]) : i \in DOMAIN taskID_suite}

InGroup(t, group) ==
    \E i \in DOMAIN Lookup(data_groups.dict, group) : Lookup(data_groups.dict, group)[i] = t

\* the data groups hold each identifier in the groups of the suite ids its leading 3
\* characters spell, and nothing else
Partitioned ==
    /\ data_groups # None
    /\ \A g \in DOMAIN SuiteOfGroup, t \in Identifiers :
           InGroup(t, SuiteOfGroup[g][1]) <=> Prefix(t, 3) = DecimalText(SuiteOfGroup[g][2])
    /\ \A g \in DOMAIN SuiteOfGroup :
           \A i \in DOMAIN Lookup(data_groups.dict, SuiteOfGroup[g][1]) :
               Lookup(data_groups.dict, SuiteOfGroup[g][1])[i] \in Identifiers

\* C8 as stated: def_data_groups_opml never fails, and partitions the identifiers by
\* their leading 3 characters, an identifier with any other prefix landing in no group.
C8_PartitionNeverFails ==
    out.op = "def_data_groups_opml" => (out.status = "ok" /\ Partitioned)

\* C8 amended: the same when the leading 3 characters of every identifier are digits;
\* when those of some identifier are not, the call raises and stores no data groups.
C8_PartitionOrValueError ==
    out.op = "def_data_groups_opml" =>
        IF \A t \in Identifiers : \A i \in 1..3 : i <= Len(t) /\ IsDigit(t[i])
        THEN out.status = "ok" /\ Partitioned
        ELSE out.status = "error" /\ data_groups = None

\* C8 witness: a partition with a task in a group and a task of a numeric prefix that
\* is no suite id in no group
C8_Witness ==
    /\ out.op = "def_data_groups_opml"
    /\ out.status = "ok"
    /\ \E t \in Identifiers : InGroup(t, "opml_reg_purnum_group")
    /\ \E t \in Identifiers : \A g \in DOMAIN SuiteOfGroup : ~InGroup(t, SuiteOfGroup[g][1])

====
